---- MODULE Spec2Model ----
(***************************************************************************)
(* Model of decrypt-secrets.py: password verification, key derivation,     *)
(* AES-GCM value decryption and the per-service batch loop of main().      *)
(*                                                                         *)
(* Python values are modelled as follows.                                  *)
(*   str    a sequence of Unicode code points                              *)
(*   bytes  a sequence of integers 0..255                                  *)
(*   None   the value None below                                           *)
(*   a call that may raise: a record [ok |-> BOOLEAN, val |-> result]      *)
(***************************************************************************)
EXTENDS Integers, Sequences, FiniteSets, TLC

None == <<-1>>

Raised == [ok |-> FALSE, val |-> <<>>]

Returned(v) == [ok |-> TRUE, val |-> v]

(***************************************************************************)
(* Sequence helpers (Python slicing and concatenation).                    *)
(***************************************************************************)
Min(a, b) == IF a < b THEN a ELSE b

\* s[lo:hi] with 0-based, end-exclusive Python indices; short slices are
\* returned short, never an error.
Slice(s, lo, hi) ==
    LET h == Min(hi, Len(s))
    IN  IF lo >= h THEN <<>> ELSE [i \in 1..(h - lo) |-> s[lo + i]]

RECURSIVE SumRange(_, _, _)
\* The sum of (s[i] + 1) * i over lo <= i <= hi, by halving the range.
SumRange(s, lo, hi) ==
    IF lo > hi THEN 0
    ELSE IF lo = hi THEN (s[lo] + 1) * lo
    ELSE LET mid == (lo + hi) \div 2
         IN  SumRange(s, lo, mid) + SumRange(s, mid + 1, hi)

\* A position-weighted checksum of a byte string; the digest the abstract
\* primitives below are built on.
SumWeighted(s) == SumRange(s, 1, Len(s))

(***************************************************************************)
(* str.encode('utf-8') and bytes.decode('utf-8').                          *)
(***************************************************************************)
RECURSIVE Utf8Encode(_)
Utf8Encode(str) ==
    IF str = <<>> THEN Returned(<<>>)
    ELSE LET c == str[1]
             rest == Utf8Encode(Tail(str))
             enc == IF c < 128 THEN <<c>>
                    ELSE IF c < 2048 THEN <<192 + (c \div 64), 128 + (c % 64)>>
                    ELSE IF c < 65536
                         THEN <<224 + (c \div 4096), 128 + ((c \div 64) % 64),
                                128 + (c % 64)>>
                    ELSE <<240 + (c \div 262144), 128 + ((c \div 4096) % 64),
                           128 + ((c \div 64) % 64), 128 + (c % 64)>>
         IN  IF (c >= 55296 /\ c <= 57343) \/ ~rest.ok
             THEN Raised   \* lone surrogates cannot be encoded
             ELSE Returned(enc \o rest.val)

IsCont(b) == b >= 128 /\ b <= 191

RECURSIVE Utf8Decode(_)
Utf8Decode(b) ==
    IF b = <<>> THEN Returned(<<>>)
    ELSE LET b1 == b[1]
             n  == IF b1 < 128 THEN 1
                   ELSE IF b1 >= 194 /\ b1 <= 223 THEN 2
                   ELSE IF b1 >= 224 /\ b1 <= 239 THEN 3
                   ELSE IF b1 >= 240 /\ b1 <= 244 THEN 4
                   ELSE 0
         IN  IF n = 0 \/ Len(b) < n THEN Raised
             ELSE IF \E k \in 2..n : ~IsCont(b[k]) THEN Raised
             ELSE LET cp == IF n = 1 THEN b1
                            ELSE IF n = 2 THEN (b1 - 192) * 64 + (b[2] - 128)
                            ELSE IF n = 3
                                 THEN (b1 - 224) * 4096 + (b[2] - 128) * 64
                                      + (b[3] - 128)
                            ELSE (b1 - 240) * 262144 + (b[2] - 128) * 4096
                                 + (b[3] - 128) * 64 + (b[4] - 128)
                      rest == Utf8Decode(Slice(b, n, Len(b)))
                  IN  IF (n = 3 /\ (cp < 2048 \/ (cp >= 55296 /\ cp <= 57343)))
                         \/ (n = 4 /\ (cp < 65536 \/ cp > 1114111))
                         \/ ~rest.ok
                      THEN Raised
                      ELSE Returned(<<cp>> \o rest.val)

(***************************************************************************)
(* base64.b64decode(s) with validate=False, and base64.b64encode.          *)
(***************************************************************************)
\* The value of a Base64 alphabet character, 64 for any other character.
B64Value(c) ==
    IF c >= 65 /\ c <= 90 THEN c - 65
    ELSE IF c >= 97 /\ c <= 122 THEN c - 71
    ELSE IF c >= 48 /\ c <= 57 THEN c + 4
    ELSE IF c = 43 THEN 62
    ELSE IF c = 47 THEN 63
    ELSE 64

B64Char(v) ==
    IF v < 26 THEN v + 65
    ELSE IF v < 52 THEN v + 71
    ELSE IF v < 62 THEN v - 4
    ELSE IF v = 62 THEN 43
    ELSE 47

\* "=", the pad character.
IsPad(c) == c = 61

IsDigit(c) == B64Value(c) < 64

\* The bytes that a sequence of Base64 digit values encodes: three bytes per
\* four digits, one or two for a last group of two or three.
DigitsToBytes(v) ==
    LET n == Len(v)
        nbytes == (n \div 4) * 3 + (IF n % 4 = 0 THEN 0 ELSE (n % 4) - 1)
    IN  [j \in 1..nbytes |->
            LET g == 4 * ((j - 1) \div 3)
                r == (j - 1) % 3
            IN  IF r = 0 THEN v[g + 1] * 4 + (v[g + 2] \div 16)
                ELSE IF r = 1 THEN (v[g + 2] % 16) * 16 + (v[g + 3] \div 4)
                ELSE (v[g + 3] % 4) * 64 + v[g + 4]]

\* binascii.a2b_base64 in its default (non-strict) mode.  Characters outside
\* the alphabet are skipped.  With quad_pos the number of digits read so far
\* modulo 4, a pad character ends the parse when it completes the group
\* (quad_pos = 3, or quad_pos = 2 and the pad before it was counted); pads
\* anywhere else are skipped.  If the input ends inside a group, the call
\* raises ("Incorrect padding").
A2bBase64(s) ==
    LET sig == SelectSeq(s, LAMBDA c : IsPad(c) \/ IsDigit(c))
        DigitsBefore(i) == Len(SelectSeq(SubSeq(sig, 1, i - 1), IsDigit))
        Ends(i) == /\ IsPad(sig[i])
                   /\ LET quad_pos == DigitsBefore(i) % 4
                      IN  \/ quad_pos = 3
                          \/ quad_pos = 2 /\ i > 1 /\ IsPad(sig[i - 1])
        ends == {i \in 1..Len(sig) : Ends(i)}
        stop == IF ends = {} THEN Len(sig) + 1
                ELSE CHOOSE i \in ends : \A k \in ends : i <= k
        digits == SelectSeq(SubSeq(sig, 1, stop - 1), IsDigit)
        values == [i \in 1..Len(digits) |-> B64Value(digits[i])]
    IN  IF ends = {} /\ Len(digits) % 4 # 0 THEN Raised
        ELSE Returned(DigitsToBytes(values))

\* base64.b64decode(s): None and non-ASCII text raise, the rest is a2b_base64.
b64decode(s) ==
    IF s = None \/ (\E i \in 1..Len(s) : s[i] > 127) THEN Raised
    ELSE A2bBase64(s)

\* base64.b64encode(b): four characters per three bytes, "=" padded.
b64encode(b) ==
    LET n == Len(b)
        Byte(i) == IF i <= n THEN b[i] ELSE 0
    IN  [j \in 1..(4 * ((n + 2) \div 3)) |->
            LET g == 3 * ((j - 1) \div 4)
                r == (j - 1) % 4
            IN  IF r = 0 THEN B64Char(Byte(g + 1) \div 4)
                ELSE IF r = 1
                THEN B64Char((Byte(g + 1) % 4) * 16 + (Byte(g + 2) \div 16))
                ELSE IF r = 2
                THEN IF g + 2 > n THEN 61
                     ELSE B64Char((Byte(g + 2) % 16) * 4 + (Byte(g + 3) \div 64))
                ELSE IF g + 3 > n THEN 61
                     ELSE B64Char(Byte(g + 3) % 64)]

(***************************************************************************)
(* The two primitives of the cryptography package, as abstract functions:  *)
(* PBKDF2HMAC(...).derive and AESGCM(key).decrypt.  The digests are toy   *)
(* checksums; what is kept is what the program relies on: determinism, the *)
(* parameter checks the package makes, and that a tag authenticates exactly*)
(* the (key, nonce, ciphertext) it was computed over.                      *)
(***************************************************************************)
iterations == 1000000

key_length == 32

nonce_size == 12

tag_size == 16

\* Digests are reduced modulo a prime.
Digest(x) == x % 65521

\* PBKDF2HMAC(SHA256, length, salt, iterations).derive(password_bytes)
PBKDF2HMAC(password_bytes, salt_bytes, iters, length) ==
    LET h == Digest(SumWeighted(salt_bytes) * 7 + SumWeighted(password_bytes) * 13
                    + iters)
    IN  [i \in 1..length |->
            IF i = 1 THEN h % 256
            ELSE IF i = 2 THEN h \div 256
            ELSE (h + i * 37) % 256]

GcmDigest(key, nonce, ct) ==
    Digest(SumWeighted(key) * 3 + SumWeighted(nonce) * 5 + SumWeighted(ct))

\* The 16-byte GCM authentication tag over (key, nonce, ciphertext).
GcmTag(key, nonce, ct) ==
    LET h == GcmDigest(key, nonce, ct)
    IN  [i \in 1..16 |->
            IF i = 1 THEN h % 256
            ELSE IF i = 2 THEN h \div 256
            ELSE (h + i * 11) % 256]

GcmKeyStream(key, nonce, i) ==
    (SumWeighted(key) + SumWeighted(nonce) + 31 * i) % 256

GcmEncryptBytes(key, nonce, pt) ==
    [i \in 1..Len(pt) |-> (pt[i] + GcmKeyStream(key, nonce, i)) % 256]

GcmDecryptBytes(key, nonce, ct) ==
    [i \in 1..Len(ct) |-> (ct[i] + 256 - GcmKeyStream(key, nonce, i)) % 256]

\* AESGCM(key).decrypt(nonce, data, None): the key and nonce length checks,
\* InvalidTag for data shorter than a tag, then the tag (the LAST 16 bytes of
\* data) is authenticated before any plaintext is released.
AESGCM_decrypt(key, nonce, data) ==
    IF Len(key) \notin {16, 24, 32} THEN Raised
    ELSE IF Len(nonce) < 8 \/ Len(nonce) > 128 THEN Raised
    ELSE IF Len(data) < 16 THEN Raised
    ELSE LET ct  == Slice(data, 0, Len(data) - 16)
             tag == Slice(data, Len(data) - 16, Len(data))
         IN  IF tag # GcmTag(key, nonce, ct) THEN Raised
             ELSE Returned(GcmDecryptBytes(key, nonce, ct))

\* The encryptor's framing (C# AesGcmCrypter, as documented in the script):
\* Base64([nonce][tag][ciphertext]).
EncryptFrame(plain_bytes, key, nonce) ==
    LET ct == GcmEncryptBytes(key, nonce, plain_bytes)
    IN  nonce \o GcmTag(key, nonce, ct) \o ct

EncryptValue(plain_bytes, key, nonce) ==
    b64encode(EncryptFrame(plain_bytes, key, nonce))

(***************************************************************************)
(* The functions of the script.                                            *)
(***************************************************************************)
derive_key_from_password(password, salt_b64) ==
    LET salt_bytes == b64decode(salt_b64)
        pw_bytes   == Utf8Encode(password)
    IN  IF ~salt_bytes.ok \/ ~pw_bytes.ok THEN Raised
        ELSE Returned(PBKDF2HMAC(pw_bytes.val, salt_bytes.val, iterations,
                                 key_length))

\* Whether a call of derive_key_from_password reaches kdf.derive, i.e. runs
\* the PBKDF2 iterations (the salt is decoded before the KDF is built).
RunsKdf(password, salt_b64) ==
    b64decode(salt_b64).ok /\ Utf8Encode(password).ok

\* A variant that accepts whenever the derivation succeeds, without comparing.
verify_password_NoComparison(password, salt_b64, expected_hash_b64) ==
    derive_key_from_password(password, salt_b64).ok

verify_password(password, salt_b64, expected_hash_b64) ==
    LET derived_key == derive_key_from_password(password, salt_b64)
    IN  IF ~derived_key.ok THEN FALSE
        ELSE LET expected_key == b64decode(expected_hash_b64)
             IN  IF ~expected_key.ok THEN FALSE
                 ELSE derived_key.val = expected_key.val

\* A variant that, when authentication fails, returns what the ciphertext
\* decrypts to anyway.
decrypt_value_Unauthenticated(ciphertext_b64, key) ==
    LET encrypted_data == b64decode(ciphertext_b64)
    IN  IF ~encrypted_data.ok THEN Raised
        ELSE LET d == encrypted_data.val
                 nonce == Slice(d, 0, nonce_size)
                 tag == Slice(d, nonce_size, nonce_size + tag_size)
                 ciphertext == Slice(d, nonce_size + tag_size, Len(d))
                 ciphertext_with_tag == ciphertext \o tag
                 plaintext == AESGCM_decrypt(key, nonce, ciphertext_with_tag)
             IN  IF ~plaintext.ok
                 THEN Utf8Decode(GcmDecryptBytes(key, nonce, ciphertext))
                 ELSE Utf8Decode(plaintext.val)

decrypt_value(ciphertext_b64, key) ==
    LET encrypted_data == b64decode(ciphertext_b64)
    IN  IF ~encrypted_data.ok THEN Raised
        ELSE LET d == encrypted_data.val
                 nonce == Slice(d, 0, nonce_size)
                 tag == Slice(d, nonce_size, nonce_size + tag_size)
                 ciphertext == Slice(d, nonce_size + tag_size, Len(d))
                 ciphertext_with_tag == ciphertext \o tag
                 plaintext == AESGCM_decrypt(key, nonce, ciphertext_with_tag)
             IN  IF ~plaintext.ok THEN Raised
                 ELSE Utf8Decode(plaintext.val)

\* The text of one output line: f"{secret_key}={value}\n".
FormatLine(secret_key, value) == secret_key \o <<61>> \o value \o <<10>>

\* Lexicographic order of two strings.
LexLess(a, b) ==
    \E i \in 1..(Min(Len(a), Len(b)) + 1) :
        /\ \A k \in 1..(i - 1) : a[k] = b[k]
        /\ IF i > Len(a) THEN i <= Len(b)
           ELSE i <= Len(b) /\ a[i] < b[i]

\* A variant that iterates the pairs sorted by key.
Items_Sorted(service_secrets) ==
    LET it == service_secrets.items
        n == Len(it)
        Rank(i) == 1 + Cardinality({j \in 1..n :
                                      LexLess(it[j].secretKey, it[i].secretKey)})
    IN  [r \in 1..n |-> it[CHOOSE i \in 1..n : Rank(i) = r]]

\* service_secrets.items(): the (key, value) pairs in insertion order.
Items(service_secrets) == service_secrets.items

\* "not service_secrets or not isinstance(service_secrets, dict)"
NoSecretsDefined(service_secrets) ==
    ~service_secrets.isDict \/ service_secrets.items = <<>>

(***************************************************************************)
(* The inputs of a run: the state document, the typed password, the        *)
(* directories on disk.                                                    *)
(***************************************************************************)
MaxEntries == 2

ServiceNames == <<"api", "db">>

SecretKeys == <<<<112, 119>>, <<99, 111, 110, 110>>, <<97, 112, 105>>,
                <<107, 52>>>>                \* "pw", "conn", "api", "k4"

CorrectPassword == <<99, 111, 114, 114, 101, 99, 116>>      \* "correct"

WrongPassword == <<119, 114, 111, 110, 103>>                \* "wrong"

SurrogatePassword == <<112, 56448>>       \* "p" and a lone surrogate

Passwords == {CorrectPassword, WrongPassword, SurrogatePassword, <<>>}

ZeroBytes(n) == [i \in 1..n |-> 0]

Salt12 == b64encode(ZeroBytes(12))

Salt8 == b64encode(ZeroBytes(8))

SaltBadPadding == <<65, 65, 65, 65, 65>>

Salts == {Salt12, Salt8, SaltBadPadding, <<>>, None}

HashFor(password, salt_b64) ==
    LET k == derive_key_from_password(password, salt_b64)
    IN  IF k.ok THEN b64encode(k.val) ELSE b64encode(ZeroBytes(32))

\* The reference hashes a state document may hold for a salt: the right one,
\* one of another password, a truncated one, one with a dangling character,
\* the right one with a line break inside, an empty one, none.
Hashes(salt_b64) ==
    LET good == HashFor(CorrectPassword, salt_b64)
    IN  { good,
          HashFor(WrongPassword, salt_b64),
          b64encode(Slice(b64decode(good).val, 0, 31)),
          Slice(good, 0, Len(good) - 2),
          Slice(good, 0, 8) \o <<10>> \o Slice(good, 8, Len(good)),
          <<>>, None }

EncKey == derive_key_from_password(CorrectPassword, Salt12).val

OtherKey == derive_key_from_password(WrongPassword, Salt12).val

Nonce1 == [i \in 1..12 |-> 16 * i]

Plain1 == <<115, 51, 99, 114>>          \* "s3cr"

Plain2 == <<195, 169, 10, 61>>          \* UTF-8 of e-acute, newline, "="

GoodBlob == EncryptValue(Plain1, EncKey, Nonce1)

GoodBlob2 == EncryptValue(Plain2, EncKey, Nonce1)

Frame1 == EncryptFrame(Plain1, EncKey, Nonce1)

FlipByte(bytes, pos) == [bytes EXCEPT ![pos] = (bytes[pos] + 1) % 256]

TamperedTag == b64encode(FlipByte(Frame1, 13))

TamperedCiphertext == b64encode(FlipByte(Frame1, 29))

\* The blobs a batch is drawn from: a valid one and a corrupted one.
BatchBlobs == {GoodBlob, TamperedTag}

\* The blobs the codec is exercised on.
CodecBlobs ==
    { GoodBlob, GoodBlob2, TamperedTag, TamperedCiphertext,
      EncryptValue(<<>>, EncKey, Nonce1),                 \* exactly 28 bytes
      b64encode(Slice(Frame1, 0, 27)),                    \* 27 bytes
      b64encode(Slice(Frame1, 0, 20)),                    \* a short tag
      b64encode(Slice(Frame1, 0, 5)),                     \* a short nonce
      <<>>,
      Slice(GoodBlob, 0, Len(GoodBlob) - 1),              \* dangling group
      Slice(GoodBlob, 0, 4) \o <<10>> \o Slice(GoodBlob, 4, Len(GoodBlob)),
      <<233>> \o GoodBlob,                                \* non-ASCII text
      EncryptValue(<<255, 254>>, EncKey, Nonce1),         \* not UTF-8
      EncryptValue(Plain1, OtherKey, Nonce1) }            \* another key

Entry(k, blob) == [secretKey |-> k, blob |-> blob]

\* The dicts of up to n entries with the blobs drawn from the set blobs; the
\* keys are SecretKeys[1..n], inserted in that (unsorted) order.
SecretDicts(blobs, n) ==
    { [isDict |-> TRUE, items |-> [i \in 1..n |-> Entry(SecretKeys[i], f[i])]] :
        f \in [1..n -> blobs] }

NotADict == [isDict |-> FALSE, items |-> <<>>]

ServiceSecrets(blobs) ==
    {NotADict} \cup UNION {SecretDicts(blobs, n) : n \in 0..MaxEntries}

Service(name, secrets) == [name |-> name, secrets |-> secrets]

\* The services -> secrets mappings of the batch runs.
BatchSecrets ==
    {<<>>}
    \cup { <<Service(ServiceNames[1], a), Service(ServiceNames[2], b)>> :
             a \in ServiceSecrets(BatchBlobs), b \in ServiceSecrets(BatchBlobs) }

\* One service whose first entry is any blob of the codec set.
CodecSecrets ==
    { <<Service(ServiceNames[1],
                [isDict |-> TRUE,
                 items |-> <<Entry(SecretKeys[1], b), Entry(SecretKeys[2], GoodBlob)>>])>> :
        b \in CodecBlobs }

AuthSecrets ==
    <<Service(ServiceNames[1],
              [isDict |-> TRUE,
               items |-> <<Entry(SecretKeys[1], GoodBlob),
                           Entry(SecretKeys[2], TamperedTag)>>])>>

NameSet == {ServiceNames[i] : i \in 1..Len(ServiceNames)}

\* A secrets file left by an earlier run.
StaleText == FormatLine(SecretKeys[4], <<111, 108, 100>>)

(***************************************************************************)
(* The state of a run of main().                                           *)
(***************************************************************************)
VARIABLES
    state_file_exists,  \* aspirate-state.json exists
    salt,               \* secrets.salt of the state document, or None
    expected_hash,      \* secrets.hash of the state document, or None
    all_secrets,        \* secrets.secrets: the services in insertion order
    typed_password,     \* what the user types at the prompt
    manifests_exists,   \* manifests/ exists
    service_dirs,       \* the services whose manifests/<service> exists
    files,              \* service -> text of its .secrets file, or None
    pc,                 \* the position in main()
    exit_code,          \* the process's exit status once pc is "exit" or "summary"
    master_password,
    verified,           \* "True" or "False" as verify_password returned,
                        \* "pending" before the call
    key,
    svc,                \* index of the service of the outer loop
    ent,                \* index of the entry of the inner loop
    decrypted_count,
    failed_count,
    kdf_runs,           \* history: the PBKDF2 derivations run so far
    kdf_salts,          \* history: the decoded salts they ran on
    outcomes,           \* history: one record per entry the loop handled:
                        \* the arguments and the result of decrypt_value
    opened              \* history: the services whose file was opened

inputs == <<state_file_exists, salt, expected_hash, all_secrets, typed_password,
            manifests_exists, service_dirs>>

history == <<kdf_runs, kdf_salts, outcomes, opened>>

vars == <<inputs, files, pc, exit_code, master_password, verified, key, svc, ent,
          decrypted_count, failed_count, history>>

InitProgram ==
    /\ pc = "start"
    /\ exit_code = 0
    /\ master_password = None
    /\ verified = "pending"
    /\ key = None
    /\ svc = 0
    /\ ent = 0
    /\ decrypted_count = 0
    /\ failed_count = 0
    /\ kdf_runs = 0
    /\ kdf_salts = {}
    /\ outcomes = <<>>
    /\ opened = {}

\* Runs that differ in the state document's salt and hash, the typed
\* password and what exists on disk.
InitAuth ==
    /\ state_file_exists \in BOOLEAN
    /\ salt \in Salts
    /\ expected_hash \in Hashes(salt)
    /\ typed_password \in Passwords
    /\ manifests_exists \in BOOLEAN
    /\ all_secrets = AuthSecrets
    /\ service_dirs = NameSet
    /\ files = [n \in NameSet |-> None]

\* Runs with the right password that differ in the services, their entries
\* and their directories.
InitBatch ==
    /\ state_file_exists = TRUE
    /\ salt = Salt12
    /\ expected_hash = HashFor(CorrectPassword, Salt12)
    /\ typed_password = CorrectPassword
    /\ manifests_exists = TRUE
    /\ all_secrets \in BatchSecrets
    /\ service_dirs \in SUBSET NameSet
    /\ files = [n \in NameSet |-> None]

\* Runs with the right password over one service whose first blob varies;
\* the service may hold a secrets file of an earlier run.
InitCodec ==
    /\ state_file_exists = TRUE
    /\ salt = Salt12
    /\ expected_hash = HashFor(CorrectPassword, Salt12)
    /\ typed_password = CorrectPassword
    /\ manifests_exists = TRUE
    /\ all_secrets \in CodecSecrets
    /\ service_dirs = NameSet
    /\ \E stale \in BOOLEAN :
         files = [n \in NameSet |-> IF stale THEN StaleText ELSE None]

Init == InitProgram /\ (InitAuth \/ InitBatch \/ InitCodec)

(***************************************************************************)
(* main(), one action per stage.                                           *)
(***************************************************************************)
Exit(code) ==
    /\ pc' = "exit"
    /\ exit_code' = code

\* "not x" of a str-or-None value.
Falsy(x) == x = None \/ x = <<>>

\* Lines 160-185: the state file is found and loaded, salt and hash are read.
LoadState ==
    /\ pc = "start"
    /\ IF ~state_file_exists \/ Falsy(salt) \/ Falsy(expected_hash)
       THEN Exit(1)
       ELSE pc' = "prompt" /\ UNCHANGED exit_code
    /\ UNCHANGED <<inputs, files, master_password, verified, key, svc, ent,
                   decrypted_count, failed_count, history>>

\* Lines 187-194: the password is read; an empty one ends the run.
PromptPassword ==
    /\ pc = "prompt"
    /\ master_password' = typed_password
    /\ IF typed_password = <<>>
       THEN Exit(1)
       ELSE pc' = "verify" /\ UNCHANGED exit_code
    /\ UNCHANGED <<inputs, files, verified, key, svc, ent, decrypted_count,
                   failed_count, history>>

\* A variant that goes on to the derivation whatever verify_password returned.
VerifyPassword_ContinuesOnFalse ==
    /\ pc = "verify"
    /\ verified' = IF verify_password(master_password, salt, expected_hash)
                   THEN "True" ELSE "False"
    /\ IF RunsKdf(master_password, salt)
       THEN /\ kdf_runs' = kdf_runs + 1
            /\ kdf_salts' = kdf_salts \cup {b64decode(salt).val}
       ELSE UNCHANGED <<kdf_runs, kdf_salts>>
    /\ pc' = "derive"
    /\ UNCHANGED <<inputs, files, exit_code, master_password, key, svc, ent,
                   decrypted_count, failed_count, outcomes, opened>>

\* Lines 196-204: the password is verified; a wrong one ends the run.
VerifyPassword ==
    /\ pc = "verify"
    /\ verified' = IF verify_password(master_password, salt, expected_hash)
                   THEN "True" ELSE "False"
    /\ IF RunsKdf(master_password, salt)
       THEN /\ kdf_runs' = kdf_runs + 1
            /\ kdf_salts' = kdf_salts \cup {b64decode(salt).val}
       ELSE UNCHANGED <<kdf_runs, kdf_salts>>
    /\ IF verified' = "False"
       THEN Exit(1)
       ELSE pc' = "derive" /\ UNCHANGED exit_code
    /\ UNCHANGED <<inputs, files, master_password, key, svc, ent,
                   decrypted_count, failed_count, outcomes, opened>>

\* Lines 206-213: the encryption key is derived again.
DeriveKey ==
    /\ pc = "derive"
    /\ LET k == derive_key_from_password(master_password, salt)
       IN  IF k.ok
           THEN key' = k.val /\ pc' = "manifests" /\ UNCHANGED exit_code
           ELSE Exit(1) /\ UNCHANGED key
    /\ IF RunsKdf(master_password, salt)
       THEN /\ kdf_runs' = kdf_runs + 1
            /\ kdf_salts' = kdf_salts \cup {b64decode(salt).val}
       ELSE UNCHANGED <<kdf_runs, kdf_salts>>
    /\ UNCHANGED <<inputs, files, master_password, verified, svc, ent,
                   decrypted_count, failed_count, outcomes, opened>>

\* Lines 215-232: without manifests/ or without services main returns; else
\* the counters are set to zero and the loop over the services starts.
CheckManifests ==
    /\ pc = "manifests"
    /\ IF ~manifests_exists \/ all_secrets = <<>>
       THEN Exit(0) /\ UNCHANGED <<svc, decrypted_count, failed_count>>
       ELSE /\ pc' = "services"
            /\ svc' = 1
            /\ decrypted_count' = 0
            /\ failed_count' = 0
            /\ UNCHANGED exit_code
    /\ UNCHANGED <<inputs, files, master_password, verified, key, ent, history>>

\* A variant without the check that the service's directory exists.
NextService_NoDirectoryCheck ==
    /\ pc = "services"
    /\ svc <= Len(all_secrets)
    /\ LET s == all_secrets[svc]
       IN  IF NoSecretsDefined(s.secrets)
           THEN /\ svc' = svc + 1
                /\ UNCHANGED <<pc, ent, files, opened>>
           ELSE /\ files' = [files EXCEPT ![s.name] = <<>>]
                /\ opened' = opened \cup {s.name}
                /\ ent' = 1
                /\ pc' = "entries"
                /\ UNCHANGED svc
    /\ UNCHANGED <<inputs, exit_code, master_password, verified, key,
                   decrypted_count, failed_count, kdf_runs, kdf_salts, outcomes>>

\* Lines 234-250: the next service of the outer loop.  A service without a
\* directory, or without a non-empty dict of secrets, is skipped; for any
\* other its secrets file is opened for writing, which empties it.
NextService ==
    /\ pc = "services"
    /\ svc <= Len(all_secrets)
    /\ LET s == all_secrets[svc]
       IN  IF s.name \notin service_dirs \/ NoSecretsDefined(s.secrets)
           THEN /\ svc' = svc + 1
                /\ UNCHANGED <<pc, ent, files, opened>>
           ELSE /\ files' = [files EXCEPT ![s.name] = <<>>]
                /\ opened' = opened \cup {s.name}
                /\ ent' = 1
                /\ pc' = "entries"
                /\ UNCHANGED svc
    /\ UNCHANGED <<inputs, exit_code, master_password, verified, key,
                   decrypted_count, failed_count, kdf_runs, kdf_salts, outcomes>>

\* The record of one call decrypt_value(e.blob, k) made for entry e of a service.
Outcome(service, e, k, result) ==
    [service |-> service, secretKey |-> e.secretKey, blob |-> e.blob, key |-> k,
     ok |-> result.ok, returned |-> IF result.ok THEN result.val ELSE None]

\* A variant in which a failure ends the loop over the service's entries.
DecryptEntry_StopsAtFailure ==
    /\ pc = "entries"
    /\ ent <= Len(Items(all_secrets[svc].secrets))
    /\ LET s == all_secrets[svc]
           e == Items(s.secrets)[ent]
           decrypted_value == decrypt_value(e.blob, key)
       IN  /\ IF decrypted_value.ok
              THEN /\ files' = [files EXCEPT ![s.name] =
                                  @ \o FormatLine(e.secretKey, decrypted_value.val)]
                   /\ decrypted_count' = decrypted_count + 1
                   /\ ent' = ent + 1
                   /\ UNCHANGED failed_count
              ELSE /\ files' = [files EXCEPT ![s.name] =
                                  @ \o FormatLine(e.secretKey, e.blob)]
                   /\ failed_count' = failed_count + 1
                   /\ ent' = Len(Items(s.secrets)) + 1
                   /\ UNCHANGED decrypted_count
           /\ outcomes' = Append(outcomes, Outcome(s.name, e, key, decrypted_value))
    /\ UNCHANGED <<inputs, pc, exit_code, master_password, verified, key, svc,
                   kdf_runs, kdf_salts, opened>>

\* A variant that does not count a failure.
DecryptEntry_FailureNotCounted ==
    /\ pc = "entries"
    /\ ent <= Len(Items(all_secrets[svc].secrets))
    /\ LET s == all_secrets[svc]
           e == Items(s.secrets)[ent]
           decrypted_value == decrypt_value(e.blob, key)
       IN  /\ IF decrypted_value.ok
              THEN /\ files' = [files EXCEPT ![s.name] =
                                  @ \o FormatLine(e.secretKey, decrypted_value.val)]
                   /\ decrypted_count' = decrypted_count + 1
                   /\ UNCHANGED failed_count
              ELSE /\ files' = [files EXCEPT ![s.name] =
                                  @ \o FormatLine(e.secretKey, e.blob)]
                   /\ UNCHANGED <<decrypted_count, failed_count>>
           /\ outcomes' = Append(outcomes, Outcome(s.name, e, key, decrypted_value))
    /\ ent' = ent + 1
    /\ UNCHANGED <<inputs, pc, exit_code, master_password, verified, key, svc,
                   kdf_runs, kdf_salts, opened>>

\* A variant that writes nothing for an entry whose decryption failed.
DecryptEntry_FailureDropped ==
    /\ pc = "entries"
    /\ ent <= Len(Items(all_secrets[svc].secrets))
    /\ LET s == all_secrets[svc]
           e == Items(s.secrets)[ent]
           decrypted_value == decrypt_value(e.blob, key)
       IN  /\ IF decrypted_value.ok
              THEN /\ files' = [files EXCEPT ![s.name] =
                                  @ \o FormatLine(e.secretKey, decrypted_value.val)]
                   /\ decrypted_count' = decrypted_count + 1
                   /\ UNCHANGED failed_count
              ELSE /\ failed_count' = failed_count + 1
                   /\ UNCHANGED <<files, decrypted_count>>
           /\ outcomes' = Append(outcomes, Outcome(s.name, e, key, decrypted_value))
    /\ ent' = ent + 1
    /\ UNCHANGED <<inputs, pc, exit_code, master_password, verified, key, svc,
                   kdf_runs, kdf_salts, opened>>

\* Lines 251-263: one entry of the inner loop.  The value is decrypted and
\* written; if that raises, the encrypted value is written instead.
DecryptEntry ==
    /\ pc = "entries"
    /\ ent <= Len(Items(all_secrets[svc].secrets))
    /\ LET s == all_secrets[svc]
           e == Items(s.secrets)[ent]
           decrypted_value == decrypt_value(e.blob, key)
       IN  /\ IF decrypted_value.ok
              THEN /\ files' = [files EXCEPT ![s.name] =
                                  @ \o FormatLine(e.secretKey, decrypted_value.val)]
                   /\ decrypted_count' = decrypted_count + 1
                   /\ UNCHANGED failed_count
              ELSE /\ files' = [files EXCEPT ![s.name] =
                                  @ \o FormatLine(e.secretKey, e.blob)]
                   /\ failed_count' = failed_count + 1
                   /\ UNCHANGED decrypted_count
           /\ outcomes' = Append(outcomes, Outcome(s.name, e, key, decrypted_value))
    /\ ent' = ent + 1
    /\ UNCHANGED <<inputs, pc, exit_code, master_password, verified, key, svc,
                   kdf_runs, kdf_salts, opened>>

\* Lines 264-267: the entries are exhausted, the file is closed and its
\* permissions set; the outer loop goes on.
CloseFile ==
    /\ pc = "entries"
    /\ ent > Len(Items(all_secrets[svc].secrets))
    /\ pc' = "services"
    /\ svc' = svc + 1
    /\ UNCHANGED <<inputs, files, exit_code, master_password, verified, key, ent,
                   decrypted_count, failed_count, history>>

\* Lines 269-279: the summary; main returns.
Summary ==
    /\ pc = "services"
    /\ svc > Len(all_secrets)
    /\ pc' = "summary"
    /\ exit_code' = 0
    /\ UNCHANGED <<inputs, files, master_password, verified, key, svc, ent,
                   decrypted_count, failed_count, history>>

Next ==
    \/ LoadState
    \/ PromptPassword
    \/ VerifyPassword
    \/ DeriveKey
    \/ CheckManifests
    \/ NextService
    \/ DecryptEntry
    \/ CloseFile
    \/ Summary

Spec == Init /\ [][Next]_vars

(***************************************************************************)
(* Properties.                                                             *)
(***************************************************************************)
\* The entries of service i as the state document holds them.
RawItems(i) == all_secrets[i].secrets.items

ServiceIndexes == 1..Len(all_secrets)

OutcomesOf(name) == SelectSeq(outcomes, LAMBDA o : o.service = name)

\* Service i passed the checks of the outer loop and its file was opened.
Processed(i) == all_secrets[i].name \in opened

\* The number of entries of service i the inner loop has handled so far.
HandledCount(i) ==
    IF ~Processed(i) THEN 0
    ELSE IF i < svc THEN Len(RawItems(i))
    ELSE IF i = svc /\ pc = "entries" THEN ent - 1
    ELSE 0

\* The positions <<service, entry>> handled so far.
Handled == UNION {{<<i, j>> : j \in 1..HandledCount(i)} : i \in ServiceIndexes}

\* A blob is genuine for a key when it decodes to a frame the encryptor
\* produces under that key for a UTF-8 plaintext.
GenuineFrames(k) == {EncryptFrame(p, k, Nonce1) : p \in {Plain1, Plain2, <<>>}}

Corrupted(blob, k) ==
    ~(b64decode(blob).ok /\ b64decode(blob).val \in GenuineFrames(k))

RECURSIVE ConcatAll(_)
ConcatAll(texts) ==
    IF texts = <<>> THEN <<>> ELSE texts[1] \o ConcatAll(Tail(texts))

\* C1: no entry is decrypted and no secrets file is opened unless
\* verify_password returned True in this run; when it returned False the run
\* has ended with exit status 1 and nothing was processed.
C1_NoDecryptionWithoutVerification ==
    /\ (outcomes # <<>> \/ opened # {}) => verified = "True"
    /\ verified = "False" =>
         /\ pc = "exit" /\ exit_code = 1
         /\ outcomes = <<>> /\ opened = {} /\ key = None
         /\ decrypted_count = 0 /\ failed_count = 0

C1_Witness ==
    /\ verified = "False"
    /\ pc = "exit"
    /\ master_password = WrongPassword
    /\ all_secrets # <<>>

\* C2: every entry of a service the loop has finished has exactly one
\* outcome, whatever the outcomes of the entries before it were; at the end
\* of the run there is one outcome per entry of the processed services, and
\* the failures are exactly the corrupted entries.
C2_BatchIsolation ==
    /\ \A i \in ServiceIndexes :
         (Processed(i) /\ i < svc) =>
            LET o == OutcomesOf(all_secrets[i].name)
            IN  /\ Len(o) = Len(RawItems(i))
                /\ \A j \in 1..Len(o) :
                     Cardinality({n \in 1..Len(o) :
                        o[n].secretKey = RawItems(i)[j].secretKey}) = 1
    /\ pc = "summary" =>
         LET entries == {<<i, j>> \in ServiceIndexes \X (1..(MaxEntries + 1)) :
                            Processed(i) /\ j <= Len(RawItems(i))}
             corrupted == {x \in entries : Corrupted(RawItems(x[1])[x[2]].blob, key)}
         IN  /\ Len(outcomes) = Cardinality(entries)
             /\ failed_count = Cardinality(corrupted)
             /\ decrypted_count = Cardinality(entries) - Cardinality(corrupted)

\* A run over four entries of which exactly one, the first, is corrupted.
C2_Witness ==
    /\ pc = "summary"
    /\ Len(outcomes) = 4
    /\ ~outcomes[1].ok
    /\ failed_count = 1
    /\ decrypted_count = 3

\* C3: the two counters always add up to the number of entries handled so
\* far; a step that handles an entry adds one to exactly one of them, and no
\* step decreases either.
C3_CounterStep ==
    /\ decrypted_count' >= decrypted_count
    /\ failed_count' >= failed_count
    /\ IF Len(outcomes') = Len(outcomes) + 1
       THEN \/ decrypted_count' = decrypted_count + 1 /\ failed_count' = failed_count
            \/ decrypted_count' = decrypted_count /\ failed_count' = failed_count + 1
       ELSE decrypted_count' = decrypted_count /\ failed_count' = failed_count

C3_Accounting ==
    /\ [](decrypted_count + failed_count = Cardinality(Handled))
    /\ [][C3_CounterStep]_vars

C3_Witness ==
    /\ pc = "summary"
    /\ decrypted_count = 2
    /\ failed_count = 2
    /\ Cardinality(Handled) = 4

\* C4: the file of a processed service is, entry by entry, one line
\* key=plaintext where decrypt_value returned a plaintext and one line
\* key=<the entry's own encrypted text> where it failed; nothing else is in
\* the file, and the counters count the two kinds of line.
ExpectedLine(o) == FormatLine(o.secretKey, IF o.ok THEN o.returned ELSE o.blob)

C4_OutputRecords ==
    /\ \A i \in ServiceIndexes :
         Processed(i) =>
            LET o == OutcomesOf(all_secrets[i].name)
            IN  /\ Len(o) = HandledCount(i)
                /\ \A j \in 1..Len(o) : o[j].blob = Items(all_secrets[i].secrets)[j].blob
                /\ files[all_secrets[i].name] =
                      ConcatAll([j \in 1..Len(o) |-> ExpectedLine(o[j])])
    /\ decrypted_count = Cardinality({n \in 1..Len(outcomes) : outcomes[n].ok})
    /\ failed_count = Cardinality({n \in 1..Len(outcomes) : ~outcomes[n].ok})

\* A finished file that replaced an older one and holds a fallback line
\* followed by a plaintext line.
C4_Witness ==
    /\ pc = "summary"
    /\ Len(outcomes) = 2
    /\ ~outcomes[1].ok /\ outcomes[2].ok
    /\ files[outcomes[1].service] =
          FormatLine(SecretKeys[1], outcomes[1].blob)
          \o FormatLine(SecretKeys[2], Utf8Decode(Plain1).val)
    /\ files[outcomes[1].service] # StaleText

\* C5: the lines of a processed service's file are those of its entries in
\* the insertion order of the source mapping, a failed entry in its own place.
C5_OrderPreserved ==
    \A i \in ServiceIndexes :
        Processed(i) =>
           files[all_secrets[i].name] =
              ConcatAll([j \in 1..HandledCount(i) |->
                 LET e == RawItems(i)[j]
                     r == decrypt_value(e.blob, key)
                 IN  FormatLine(e.secretKey, IF r.ok THEN r.val ELSE e.blob)])

\* A finished service whose keys are not in sorted order and whose first
\* entry failed.
C5_Witness ==
    /\ pc = "summary"
    /\ \E i \in ServiceIndexes :
         /\ Processed(i)
         /\ Len(RawItems(i)) >= 2
         /\ LexLess(RawItems(i)[2].secretKey, RawItems(i)[1].secretKey)
         /\ ~decrypt_value(RawItems(i)[1].blob, key).ok
         /\ decrypt_value(RawItems(i)[2].blob, key).ok

MalformedSalt(s) == ~b64decode(s).ok \/ Len(b64decode(s).val) # 12

MalformedHash(h) == ~b64decode(h).ok \/ Len(b64decode(h).val) # 32

\* C6: verify_password always returns a boolean; it returns False for a salt
\* or a reference hash that is malformed (not Base64, or not 12 resp. 32
\* bytes), and True only when the derived key equals the decoded hash.
C6_VerifyRejectsMalformedInput ==
    verified # "pending" =>
       /\ verified \in {"True", "False"}
       /\ (MalformedSalt(salt) \/ MalformedHash(expected_hash)) => verified = "False"
       /\ verified = "True" =>
             derive_key_from_password(master_password, salt).val
                = b64decode(expected_hash).val

\* C7: decrypt_value returns a string only for a blob that decodes, holds at
\* least 28 bytes, whose bytes 12..27 are the tag of (key, bytes 0..11, bytes
\* 28..) and whose decryption is UTF-8; the string is that decryption.  Every
\* other call fails and returns nothing.
C7_OnlyAuthenticatedPlaintext ==
    \A n \in 1..Len(outcomes) :
        LET o == outcomes[n]
            dec == b64decode(o.blob)
            d == dec.val
            nonce == Slice(d, 0, 12)
            tag == Slice(d, 12, 28)
            ciphertext == Slice(d, 28, Len(d))
            text == Utf8Decode(GcmDecryptBytes(o.key, nonce, ciphertext))
        IN  /\ o.ok =>
                 /\ dec.ok
                 /\ Len(d) >= 28
                 /\ tag = GcmTag(o.key, nonce, ciphertext)
                 /\ text.ok
                 /\ o.returned = text.val
            /\ ~o.ok => o.returned = None

\* A call on a blob of 27 bytes failed and a call on a valid blob returned
\* its plaintext.
C7_Witness ==
    /\ Len(outcomes) = 2
    /\ ~outcomes[1].ok
    /\ b64decode(outcomes[1].blob).ok
    /\ Len(b64decode(outcomes[1].blob).val) = 27
    /\ outcomes[2].ok
    /\ outcomes[2].returned = Utf8Decode(Plain1).val

\* C8: PBKDF2 never runs on a salt that is not 12 bytes long, and no key is
\* produced from such a salt.
C8_SaltLengthCheckedBeforeDerivation ==
    /\ \A s \in kdf_salts : Len(s) = 12
    /\ key # None => Len(b64decode(salt).val) = 12

\* C9: a service whose directory does not exist is never opened, gets no
\* file and no outcome and adds nothing to the counters, and every service
\* that has a directory and secrets is processed in full.
C9_MissingDirectorySkipped ==
    /\ \A i \in ServiceIndexes :
         all_secrets[i].name \notin service_dirs =>
            /\ all_secrets[i].name \notin opened
            /\ files[all_secrets[i].name] = None
            /\ OutcomesOf(all_secrets[i].name) = <<>>
    /\ pc = "summary" =>
         LET present == {i \in ServiceIndexes :
                            /\ all_secrets[i].name \in service_dirs
                            /\ all_secrets[i].secrets.isDict
                            /\ RawItems(i) # <<>>}
         IN  /\ \A i \in present :
                  /\ all_secrets[i].name \in opened
                  /\ Len(OutcomesOf(all_secrets[i].name)) = Len(RawItems(i))
             /\ decrypted_count + failed_count =
                  Cardinality(UNION {{<<i, j>> : j \in 1..Len(RawItems(i))} :
                                        i \in present})

\* The first service has secrets but no directory, the second was processed.
C9_Witness ==
    /\ pc = "summary"
    /\ Len(all_secrets) = 2
    /\ all_secrets[1].name \notin service_dirs
    /\ RawItems(1) # <<>>
    /\ all_secrets[2].name \in opened
    /\ Len(outcomes) = Len(RawItems(2))
    /\ outcomes # <<>>

\* C10: every call of decrypt_value is made with the key that the stored
\* reference hash decodes to, after exactly two key derivations.
C10_KeyIsVerifiedKey ==
    /\ \A n \in 1..Len(outcomes) : outcomes[n].key = b64decode(expected_hash).val
    /\ outcomes # <<>> => kdf_runs = 2

C10_Witness ==
    /\ outcomes # <<>>
    /\ kdf_runs = 2
    /\ outcomes[1].key = b64decode(expected_hash).val
    /\ outcomes[1].key = key

====
